---------------------------- MODULE Spec2Model ----------------------------
(***************************************************************************)
(* A model of three pieces of mosh:                                        *)
(*                                                                         *)
(*   - emulate_terminal and tick, the main loop of the stm terminal        *)
(*     emulator (src/unnamed/part_001), under the specification Spec,      *)
(*     and under SpecLive, which adds that the loop keeps running and the  *)
(*     clock advances;                                                     *)
(*   - swrite, the write-everything helper (src/unnamed/part_000), under   *)
(*     the specification SpecSwrite;                                       *)
(*   - Parser::Transition (src/src/terminal/parsertransition.h), under     *)
(*     the specification SpecTransition.                                   *)
(*                                                                         *)
(* Terminal::Complete, Terminal::Display and Select are not part of the    *)
(* three files; they are modelled from their documented contracts.  The    *)
(* emulator's framebuffer is abstracted to the list of actions applied to  *)
(* it, so two framebuffers are equal exactly when the same actions were    *)
(* applied in the same order.                                              *)
(*                                                                         *)
(* What the model takes for granted: gettimeofday succeeds (it is given a  *)
(* valid pointer and a null time zone) and never goes backwards; select()  *)
(* reports a descriptor readable exactly when a read on it would not       *)
(* block; the return values of the writes to the real terminal, which the  *)
(* code ignores, are not modelled, so "written to the terminal" means      *)
(* "given to swrite on standard output".                                   *)
(***************************************************************************)
EXTENDS Integers, Sequences, FiniteSets, TLC

\* ------------------------------------------------------------------------
\* Bounds of the model
\* ------------------------------------------------------------------------

\* How many bytes the user types and the host sends, together, over a run.
MaxBytes == 2
\* How many times the window is resized over a whole run.
MaxResizes == 1
\* The clock runs from 0 to MaxClock model ticks.
MaxClock == 3
\* One model tick of the clock, in microseconds, and the clock's reading at
\* tick 0 (just below a whole second, so that tv_sec changes during a run).
ClockStep == 10000
ClockBase == 980000
\* The size of the read buffers (16384 in the program, scaled down).
buf_size == 2

\* The byte values the user and the host may send.
Byte == {1, 2}

\* ------------------------------------------------------------------------
\* Program constants
\* ------------------------------------------------------------------------

\* .000001 * tv_usec: microseconds per second.
UsecPerSec == 1000000
\* diff >= 0.02, in microseconds.
RenderIntervalUsec == 20000
\* timeout = -1: block indefinitely; timeout = 20: milliseconds.
TimeoutForever == -1
TimeoutShort == 20

\* ------------------------------------------------------------------------
\* Helpers
\* ------------------------------------------------------------------------

Min(a, b) == IF a <= b THEN a ELSE b

Prefix(s, n) == SubSeq(s, 1, n)

Drop(s, n) == SubSeq(s, n + 1, Len(s))

IsPrefix(s, t) == Len(s) <= Len(t) /\ Prefix(t, Len(s)) = s

Last(s) == s[Len(s)]

\* ------------------------------------------------------------------------
\* The collaborators of the main loop
\* ------------------------------------------------------------------------

\* gettimeofday: the struct timeval read at model tick t.
timeval(t) ==
  [tv_sec  |-> (ClockBase + t * ClockStep) \div UsecPerSec,
   tv_usec |-> (ClockBase + t * ClockStep) % UsecPerSec]

\* double diff = (this.tv_sec - last.tv_sec) + .000001 * (this.tv_usec -
\* last.tv_usec), kept in whole microseconds (the double comparison with 0.02
\* agrees with the comparison of whole microseconds with 20000).
diff_usec(this_time, last) ==
  (this_time.tv_sec - last.tv_sec) * UsecPerSec
    + (this_time.tv_usec - last.tv_usec)

\* Terminal::Complete::act( Parser::UserByte( b ) ): the bytes for the host.
\* Byte 1 is forwarded as it is, byte 2 expands to two bytes (a cursor key).
UserByteReply(b) == IF b = 1 THEN <<11>> ELSE <<12, 13>>

\* The reply of the emulator to one host byte: byte 2 is a status query.
HostByteReply(b) == IF b = 1 THEN <<>> ELSE <<22>>

\* Terminal::Complete::act( std::string ): the host bytes are applied in
\* order and the replies accumulated.
RECURSIVE HostReply(_)
HostReply(s) ==
  IF s = <<>> THEN <<>> ELSE HostByteReply(s[1]) \o HostReply(Drop(s, 1))

\* The entries the emulator's log gains from a buffer of bytes of one source.
RECURSIVE Entries(_, _)
Entries(src, s) ==
  IF s = <<>> THEN <<>>
  ELSE <<[src |-> src, val |-> s[1]]>> \o Entries(src, Drop(s, 1))

\* Terminal::Display::new_frame( initialized, previous, current ): a full
\* repaint when not initialized, else the difference, empty when equal.
NewFrame(init, previous, current) ==
  IF ~init THEN [kind |-> "full", from |-> <<>>, to |-> current]
  ELSE IF previous = current THEN [kind |-> "none", from |-> <<>>, to |-> <<>>]
  ELSE [kind |-> "diff", from |-> previous, to |-> current]

\* What a call of swrite on the string s can do, as seen by its caller: all
\* of s is written and 0 returned, or a write fails after fewer than Len(s)
\* bytes and -1 is returned (see SwLoop below for its steps).
SwriteOutcomes(s) ==
  {[ret |-> 0, n |-> Len(s)]} \cup {[ret |-> -1, n |-> k] : k \in 0..(Len(s) - 1)}


\* ------------------------------------------------------------------------
\* State
\* ------------------------------------------------------------------------

VARIABLES
  \* -- the world around emulate_terminal
  userIn,            \* bytes typed by the user and not yet read
  hostIn,            \* bytes sent by the host and not yet read
  winch,             \* a SIGWINCH is pending
  termSize,          \* the window size TIOCGWINSZ reports
  now,               \* the clock, in model ticks
  userArrived,       \* how many bytes the user has typed so far
  hostArrived,       \* how many bytes the host has sent so far
  \* -- emulate_terminal and tick
  pc,                \* the position of emulate_terminal
  sel,               \* what the last select() reported
  branch,            \* the branch of the loop body taken in this iteration
  buf,               \* the bytes of this iteration's read
  i,                 \* the index of the for loop over buf
  terminal_to_host,  \* the reply being accumulated
  complete,          \* the emulator: the actions applied to it, in order
  state,             \* the framebuffer last rendered
  initialized,       \* tick's static flag
  last_time,         \* tick's static struct timeval
  timeout,           \* the timeout of the next select()
  selectStart,       \* the clock when select() was called
  \* -- what the run did (history)
  toTerm,            \* what was written to the real terminal, in order
  calls,             \* the last two calls of display.new_frame, in order
  toHost,            \* the bytes handed to the host descriptor, in order
  cause,             \* why emulate_terminal left the loop
  bothMark,          \* userArrived at the last wake-up with both inputs ready
  ticks,             \* how many times tick was called in this iteration
  hostMark,          \* Len(toHost) at the last wake-up
  termMark,          \* Len(toTerm) at the last wake-up
  wres,              \* the outcome of this iteration's swrite to the host
  wreq,              \* the string this iteration's swrite was given
  toChild,           \* the window sizes the child was told, in order
  logMark            \* Len(complete) when select() was last called

envVars == <<userIn, hostIn, winch, termSize, now,
             userArrived, hostArrived>>
tickVars == <<state, initialized, last_time, timeout>>
readVars == <<buf, i, terminal_to_host>>
histVars == <<toTerm, calls, toHost, cause, bothMark, ticks, hostMark,
              termMark, wres, wreq>>
winVars == <<toChild, logMark>>
loopVars == <<pc, sel, branch, buf, i, terminal_to_host, complete, state,
              initialized, last_time, timeout, selectStart>>

\* -- swrite
VARIABLES
  sw_pc,                \* "entry", "loop" or "returned"
  str,                  \* the buffer (a NUL follows its last byte)
  len,                  \* the len argument
  total_bytes_written,
  bytes_to_write,
  fd_out,               \* the bytes handed to the descriptor, in order
  write_calls,          \* the write calls made: offset, count asked, result
  sw_ret                \* the value returned

swVars == <<sw_pc, str, len, total_bytes_written, bytes_to_write, fd_out,
            write_calls, sw_ret>>

\* -- Parser::Transition
VARIABLES
  tr,        \* the Transition objects: slot -> [action, next_state] or Absent
  heap,      \* the Action objects ever made: id -> [type, use_count]
  lastOp     \* the last operation on a Transition, and what it did

trVars == <<tr, heap, lastOp>>

\* What each part of the model leaves alone.
notLoop == <<swVars, trVars>>
notSwrite == <<envVars, loopVars, histVars, winVars, trVars>>
notTransition == <<envVars, loopVars, histVars, winVars, swVars>>

\* complete.get_fb(): the emulator's current framebuffer.
get_fb == complete

\* The number of user bytes applied to the emulator so far.
UserApplied == Cardinality({k \in DOMAIN complete : complete[k].src = "user"})

\* One call of display.new_frame: who made it, its arguments, the clock at
\* the call and the bytes it gave.
FrameCall(by, init, previous, current) ==
  [by |-> by, initialized |-> init, previous |-> previous,
   current |-> current, at |-> now, out |-> NewFrame(init, previous, current)]

\* The history of new_frame calls keeps the last two.
Remember(cs, c) == IF Len(cs) < 2 THEN Append(cs, c) ELSE <<cs[2], c>>

NoWrite == [ret |-> 0, n |-> 0]

InitLoop ==
  /\ userIn = <<>> /\ hostIn = <<>>
  /\ winch = FALSE /\ termSize = 0
  /\ now = 0 /\ userArrived = 0 /\ hostArrived = 0
  /\ pc = "start"
  /\ sel = [user |-> FALSE, host |-> FALSE, sig |-> FALSE]
  /\ branch = "none"
  /\ buf = <<>> /\ i = 0 /\ terminal_to_host = <<>>
  /\ complete = <<>> /\ state = <<>>
  /\ initialized = FALSE
  /\ last_time = [tv_sec |-> 0, tv_usec |-> 0]
  /\ timeout = TimeoutForever
  /\ selectStart = 0
  /\ toTerm = <<>> /\ calls = <<>> /\ toHost = <<>> /\ cause = "none"
  /\ bothMark = 0 /\ ticks = 0 /\ hostMark = 0 /\ termMark = 0
  /\ wres = NoWrite /\ wreq = <<>>
  /\ toChild = <<>> /\ logMark = 0

\* ------------------------------------------------------------------------
\* The world: input arrives, the window is resized, time passes.  The model
\* lets it happen while emulate_terminal is in select(): nothing else in the
\* loop looks at the descriptors, and the clock is read by tick alone, so
\* what happens during the loop body is seen as if it had happened just
\* before the next select().
\* ------------------------------------------------------------------------

Waiting == pc = "select"

UserTypes(b) ==
  /\ Waiting /\ userArrived + hostArrived < MaxBytes
  /\ userIn' = Append(userIn, b)
  /\ userArrived' = userArrived + 1
  /\ UNCHANGED <<hostIn, winch, termSize, now, hostArrived>>
  /\ UNCHANGED <<loopVars, histVars>>
  /\ UNCHANGED winVars
  /\ UNCHANGED notLoop

HostSends(b) ==
  /\ Waiting /\ userArrived + hostArrived < MaxBytes
  /\ hostIn' = Append(hostIn, b)
  /\ hostArrived' = hostArrived + 1
  /\ UNCHANGED <<userIn, winch, termSize, now, userArrived>>
  /\ UNCHANGED <<loopVars, histVars>>
  /\ UNCHANGED winVars
  /\ UNCHANGED notLoop

WindowResized ==
  /\ Waiting /\ termSize < MaxResizes
  /\ termSize' = termSize + 1
  /\ winch' = TRUE
  /\ UNCHANGED <<userIn, hostIn, now, userArrived,
                 hostArrived>>
  /\ UNCHANGED <<loopVars, histVars>>
  /\ UNCHANGED winVars
  /\ UNCHANGED notLoop

Elapse ==
  /\ Waiting /\ now < MaxClock
  /\ now' = now + 1
  /\ UNCHANGED <<userIn, hostIn, winch, termSize,
                 userArrived, hostArrived>>
  /\ UNCHANGED <<loopVars, histVars>>
  /\ UNCHANGED winVars
  /\ UNCHANGED notLoop

\* ------------------------------------------------------------------------
\* emulate_terminal
\* ------------------------------------------------------------------------

\* The two ioctl calls, the construction of the emulator, of the snapshot and
\* of the display, and the write of display.open().
Setup ==
  /\ pc = "start"
  /\ \/ /\ pc' = "done"                 \* TIOCGWINSZ or TIOCSWINSZ fails
        /\ cause' = "setup"
        /\ UNCHANGED <<toTerm, timeout, toChild>>
     \/ /\ pc' = "select"
        /\ toChild' = Append(toChild, termSize)
        /\ toTerm' = Append(toTerm, "open")
        /\ timeout' = TimeoutForever
        /\ UNCHANGED cause
  /\ selectStart' = now
  /\ UNCHANGED <<sel, branch, readVars, complete, state, initialized, last_time>>
  /\ UNCHANGED <<calls, toHost, bothMark, ticks, hostMark, termMark, wres, wreq>>
  /\ UNCHANGED logMark
  /\ UNCHANGED envVars
  /\ UNCHANGED notLoop

\* A faulty loop body: the host branch is tested before the user branch.
BranchHostFirst(s) ==
  IF s.host THEN "host"
  ELSE IF s.user THEN "user"
  ELSE IF s.sig THEN "winch"
  ELSE "none"

\* A faulty loop body: a pending SIGWINCH is handled before any input.
BranchSignalFirst(s) ==
  IF s.sig THEN "winch"
  ELSE IF s.user THEN "user"
  ELSE IF s.host THEN "host"
  ELSE "none"

\* if user-readable / else if host-readable / else if SIGWINCH: the branch of
\* the loop body that runs for what select() reported.
Branch(s) ==
  IF s.user THEN "user"
  ELSE IF s.host THEN "host"
  ELSE IF s.sig THEN "winch"
  ELSE "none"

\* What select() reports: a descriptor is readable when it has bytes or is
\* at end of file (ueof, heof), and the signal when one is pending.
Ready(ueof, heof) ==
  [user |-> (userIn # <<>> \/ ueof),
   host |-> (hostIn # <<>> \/ heof),
   sig  |-> winch]

\* The select timeout has run out.
TimedOut ==
  /\ timeout = TimeoutShort
  /\ (now - selectStart) * ClockStep >= timeout * 1000

\* sel.select( timeout ) returns: with an error (break), with something
\* ready, or with nothing ready when the timeout has run out.
SelectReturns ==
  /\ pc = "select"
  /\ \/ /\ pc' = "final"
        /\ cause' = "select"
        /\ UNCHANGED <<sel, branch, bothMark, ticks, hostMark, termMark>>
     \/ /\ \E ueof, heof \in BOOLEAN :
             LET r == Ready(ueof, heof)
             IN  /\ r.user \/ r.host \/ r.sig \/ TimedOut
                 /\ sel' = r
                 /\ branch' = Branch(r)
        /\ pc' = "dispatch"
        /\ bothMark' = IF userIn # <<>> /\ hostIn # <<>>
                       THEN userArrived ELSE bothMark
        /\ ticks' = 0
        /\ hostMark' = Len(toHost)
        /\ termMark' = Len(toTerm)
        /\ UNCHANGED cause
  /\ UNCHANGED <<readVars, complete, tickVars, selectStart>>
  /\ UNCHANGED <<toTerm, calls, toHost, wres, wreq>>
  /\ UNCHANGED envVars
  /\ UNCHANGED winVars
  /\ UNCHANGED notLoop

\* read( STDIN_FILENO, buf, buf_size ): end of file and an error return from
\* emulate_terminal; otherwise some of the pending bytes fill the buffer.
UserRead ==
  /\ pc = "dispatch" /\ branch = "user"
  /\ \/ /\ userIn = <<>>                    \* bytes_read == 0
        /\ pc' = "done" /\ cause' = "eof"
        /\ UNCHANGED <<userIn, readVars>>
     \/ /\ pc' = "done" /\ cause' = "read_error"   \* bytes_read < 0
        /\ UNCHANGED <<userIn, readVars>>
     \/ \E n \in 1..Min(Len(userIn), buf_size) :
          /\ buf' = Prefix(userIn, n)
          /\ userIn' = Drop(userIn, n)
          /\ i' = 0
          /\ terminal_to_host' = <<>>
          /\ pc' = "user_loop"
          /\ UNCHANGED cause
  /\ UNCHANGED <<sel, branch, complete, tickVars, selectStart>>
  /\ UNCHANGED <<toTerm, calls, toHost, bothMark, ticks, hostMark, termMark, wres, wreq>>
  /\ UNCHANGED <<hostIn, winch, termSize, now, userArrived,
                 hostArrived>>
  /\ UNCHANGED winVars
  /\ UNCHANGED notLoop

\* A faulty for loop: it walks the buffer from its end.
UserByteAtReversed(b, k) == b[Len(b) - k]

\* buf[ i ] of the for loop.
UserByteAt(b, k) == b[k + 1]

\* A faulty accumulation: = instead of +=.
AccumulateOverwrite(tth, reply) == reply

\* terminal_to_host += reply.
Accumulate(tth, reply) == tth \o reply

\* One round of: for ( i = 0; i < bytes_read; i++ )
\*   terminal_to_host += complete.act( Parser::UserByte( buf[ i ] ) );
UserAct ==
  /\ pc = "user_loop" /\ i < Len(buf)
  /\ complete' = Append(complete, [src |-> "user", val |-> UserByteAt(buf, i)])
  /\ terminal_to_host' =
       Accumulate(terminal_to_host, UserByteReply(UserByteAt(buf, i)))
  /\ i' = i + 1
  /\ UNCHANGED <<pc, sel, branch, buf, tickVars, selectStart>>
  /\ UNCHANGED histVars
  /\ UNCHANGED envVars
  /\ UNCHANGED winVars
  /\ UNCHANGED notLoop

\* read( fd, buf, buf_size ) and complete.act( std::string( buf, bytes_read ) ).
HostRead ==
  /\ pc = "dispatch" /\ branch = "host"
  /\ \/ /\ hostIn = <<>>                    \* bytes_read == 0
        /\ pc' = "done" /\ cause' = "eof"
        /\ UNCHANGED <<hostIn, readVars, complete>>
     \/ /\ pc' = "done" /\ cause' = "read_error"   \* bytes_read < 0
        /\ UNCHANGED <<hostIn, readVars, complete>>
     \/ \E n \in 1..Min(Len(hostIn), buf_size) :
          /\ buf' = Prefix(hostIn, n)
          /\ hostIn' = Drop(hostIn, n)
          /\ i' = n
          /\ complete' = complete \o Entries("host", Prefix(hostIn, n))
          /\ terminal_to_host' = HostReply(Prefix(hostIn, n))
          /\ pc' = "host_write"
          /\ UNCHANGED cause
  /\ UNCHANGED <<sel, branch, tickVars, selectStart>>
  /\ UNCHANGED <<toTerm, calls, toHost, bothMark, ticks, hostMark, termMark, wres, wreq>>
  /\ UNCHANGED <<userIn, winch, termSize, now, userArrived,
                 hostArrived>>
  /\ UNCHANGED winVars
  /\ UNCHANGED notLoop

\* if ( swrite( fd, terminal_to_host.c_str(), terminal_to_host.length() ) < 0 )
\*   break;
HostWrite ==
  /\ \/ pc = "user_loop" /\ i = Len(buf)     \* the for loop has ended
     \/ pc = "host_write"
  /\ \E r \in SwriteOutcomes(terminal_to_host) :
       /\ toHost' = toHost \o Prefix(terminal_to_host, r.n)
       /\ wres' = r
       /\ wreq' = terminal_to_host
       /\ IF r.ret < 0
          THEN pc' = "final" /\ cause' = "host_write"
          ELSE pc' = "tick" /\ UNCHANGED cause
  /\ UNCHANGED <<sel, branch, readVars, complete, tickVars, selectStart>>
  /\ UNCHANGED <<toTerm, calls, bothMark, ticks, hostMark, termMark>>
  /\ UNCHANGED envVars
  /\ UNCHANGED winVars
  /\ UNCHANGED notLoop

\* The SIGWINCH branch, first half: ask the window size and tell the
\* emulator; a failing ioctl returns from emulate_terminal.
Winch ==
  /\ pc = "dispatch" /\ branch = "winch"
  /\ winch' = FALSE
  /\ \/ /\ pc' = "done" /\ cause' = "ioctl"        \* TIOCGWINSZ fails
        /\ UNCHANGED complete
     \/ /\ complete' = Append(complete, [src |-> "resize", val |-> termSize])
        /\ pc' = "winch_tell"
        /\ UNCHANGED cause
  /\ UNCHANGED <<sel, branch, readVars, tickVars, selectStart>>
  /\ UNCHANGED <<toTerm, calls, toHost, bothMark, ticks, hostMark, termMark, wres, wreq>>
  /\ UNCHANGED <<userIn, hostIn, termSize, now, userArrived,
                 hostArrived>>
  /\ UNCHANGED winVars
  /\ UNCHANGED notLoop

\* The SIGWINCH branch, second half: ioctl( fd, TIOCSWINSZ, &window_size )
\* tells the child the size the emulator was just given.
TellChild ==
  /\ pc = "winch_tell"
  /\ \/ /\ pc' = "done" /\ cause' = "ioctl"        \* TIOCSWINSZ fails
        /\ UNCHANGED toChild
     \/ /\ toChild' = Append(toChild, Last(complete).val)
        /\ pc' = "tick"
        /\ UNCHANGED cause
  /\ UNCHANGED <<sel, branch, readVars, complete, tickVars, selectStart>>
  /\ UNCHANGED <<toTerm, calls, toHost, bothMark, ticks, hostMark, termMark, wres, wreq>>
  /\ UNCHANGED logMark
  /\ UNCHANGED envVars
  /\ UNCHANGED notLoop

\* No branch of the loop body runs: select() timed out.
NoEvent ==
  /\ pc = "dispatch" /\ branch = "none"
  /\ pc' = "tick"
  /\ UNCHANGED <<sel, branch, readVars, complete, tickVars, selectStart>>
  /\ UNCHANGED histVars
  /\ UNCHANGED envVars
  /\ UNCHANGED winVars
  /\ UNCHANGED notLoop

\* A faulty tick: the test compares with 0.01 instead of 0.02.
ShouldRenderSooner(init, this_time, last) ==
  (~init) \/ (2 * diff_usec(this_time, last) >= RenderIntervalUsec)

\* A faulty tick: the test is ( diff > 0.02 ), so a render exactly 1/50
\* second after the last one is held back.
ShouldRenderStrict(init, this_time, last) ==
  (~init) \/ (diff_usec(this_time, last) > RenderIntervalUsec)

\* tick's test: ( !initialized ) || ( diff >= 0.02 ).
ShouldRender(init, this_time, last) ==
  (~init) \/ (diff_usec(this_time, last) >= RenderIntervalUsec)

\* A faulty loop: the timeout is 20 whatever tick returned.
NextTimeoutAlwaysShort(rendered) == TimeoutShort

\* A faulty loop: the timeout stays -1 whatever tick returned.
NextTimeoutAlwaysForever(rendered) == TimeoutForever

\* if ( tick( ... ) ) { timeout = -1; } else { timeout = 20; }
NextTimeout(rendered) == IF rendered THEN TimeoutForever ELSE TimeoutShort

\* Terminal::Framebuffer new_frame( complete.get_fb() ), the call of tick and
\* the choice of the next timeout.
Tick ==
  /\ pc = "tick"
  /\ LET new_frame == get_fb
         this_time == timeval(now)
         rendered == ShouldRender(initialized, this_time, last_time)
     IN  /\ IF rendered
            THEN /\ toTerm' = Append(toTerm, "frame")
                 /\ calls' = Remember(calls,
                       FrameCall("tick", initialized, state, new_frame))
                 /\ state' = new_frame
                 /\ initialized' = TRUE
                 /\ last_time' = this_time
            ELSE UNCHANGED <<toTerm, calls, state, initialized, last_time>>
         /\ timeout' = NextTimeout(rendered)
  /\ ticks' = ticks + 1
  /\ pc' = "select"
  /\ selectStart' = now
  \* buf and terminal_to_host go out of scope with the branch's block, and
  \* the next select() overwrites what this one reported.
  /\ buf' = <<>> /\ i' = 0 /\ terminal_to_host' = <<>>
  /\ sel' = [user |-> FALSE, host |-> FALSE, sig |-> FALSE]
  /\ branch' = "none"
  /\ wres' = NoWrite /\ wreq' = <<>>
  /\ UNCHANGED complete
  /\ UNCHANGED <<toHost, cause, bothMark, hostMark, termMark>>
  /\ logMark' = Len(complete)
  /\ UNCHANGED toChild
  /\ UNCHANGED envVars
  /\ UNCHANGED notLoop

\* The first argument of the new_frame call after the loop.
FinalInitialized == TRUE

\* After a break: the last frame and display.close().
Leave ==
  /\ pc = "final"
  /\ toTerm' = toTerm \o <<"frame", "close">>
  /\ calls' = Remember(calls, FrameCall("exit", FinalInitialized, state, get_fb))
  /\ pc' = "done"
  /\ UNCHANGED <<sel, branch, readVars, complete, tickVars, selectStart>>
  /\ UNCHANGED <<toHost, cause, bothMark, ticks, hostMark, termMark, wres, wreq>>
  /\ UNCHANGED envVars
  /\ UNCHANGED winVars
  /\ UNCHANGED notLoop

LoopNext ==
  \/ Setup
  \/ SelectReturns
  \/ UserRead
  \/ UserAct
  \/ HostRead
  \/ HostWrite
  \/ Winch
  \/ TellChild
  \/ NoEvent
  \/ Tick
  \/ Leave
  \/ \E b \in Byte : UserTypes(b)
  \/ \E b \in Byte : HostSends(b)
  \/ WindowResized
  \/ Elapse

\* ------------------------------------------------------------------------
\* swrite( fd, str, len )
\* ------------------------------------------------------------------------

\* The longest buffer swrite is given.
MaxStrLen == 3

\* The bytes a buffer may hold; 0 is the NUL byte.
CharByte == {0, 1, 2}

\* The buffers of at most n bytes.
Buffers(n) == UNION {[1..k -> CharByte] : k \in 0..n}

\* strlen( str ): the number of bytes before the first NUL.
strlen(s) ==
  IF \E k \in DOMAIN s : s[k] = 0
  THEN (CHOOSE k \in DOMAIN s : s[k] = 0 /\ \A j \in 1..(k - 1) : s[j] # 0) - 1
  ELSE Len(s)

\* ( len >= 0 ) ? len : (ssize_t) strlen( str )
BytesToWrite(s, l) == IF l >= 0 THEN l ELSE strlen(s)

\* A faulty write argument: str instead of str + total_bytes_written.
WriteArgFromStart(s, offset, count) == SubSeq(s, 1, count)

\* str + total_bytes_written, for count bytes: what one write call is given.
WriteArg(s, offset, count) == SubSeq(s, offset + 1, offset + count)

\* What write() may return when asked for count bytes: an error, nothing, or
\* the number of bytes it took.
WriteResults(count) == {-1, 0} \cup (1..count)

\* swrite is called on a buffer with a length that is negative or within it.
InitSwrite ==
  /\ sw_pc = "entry"
  /\ str \in Buffers(MaxStrLen)
  /\ len \in {-2, -1} \cup (0..Len(str))
  /\ total_bytes_written = 0
  /\ bytes_to_write = 0
  /\ fd_out = <<>>
  /\ write_calls = <<>>
  /\ sw_ret = 1            \* nothing returned yet (swrite returns 0 or -1)

IdleSwrite ==
  /\ sw_pc = "idle" /\ str = <<>> /\ len = 0
  /\ total_bytes_written = 0 /\ bytes_to_write = 0
  /\ fd_out = <<>> /\ write_calls = <<>> /\ sw_ret = 1

\* The two declarations before the loop.
SwEnter ==
  /\ sw_pc = "entry"
  /\ total_bytes_written' = 0
  /\ bytes_to_write' = BytesToWrite(str, len)
  /\ sw_pc' = "loop"
  /\ UNCHANGED <<str, len, fd_out, write_calls, sw_ret>>
  /\ UNCHANGED notSwrite

\* A faulty swrite: the test is ( bytes_written < 0 ), so a write that
\* returns 0 is taken for a success.
WriteFailedNegative(bytes_written) == bytes_written < 0

\* if ( bytes_written <= 0 ): the write call failed.
WriteFailed(bytes_written) == bytes_written <= 0

\* A faulty swrite: the loop test is ( total_bytes_written <= bytes_to_write ).
LoopGoesOnInclusive(total, to_write) == total <= to_write

\* while ( total_bytes_written < bytes_to_write )
LoopGoesOn(total, to_write) == total < to_write

\* One round of the loop: a write call, and the return of -1 when it gives
\* no byte.
SwLoop ==
  /\ sw_pc = "loop"
  /\ LoopGoesOn(total_bytes_written, bytes_to_write)
  /\ \E bytes_written \in WriteResults(bytes_to_write - total_bytes_written) :
       /\ write_calls' = Append(write_calls,
            [offset |-> total_bytes_written,
             count  |-> bytes_to_write - total_bytes_written,
             result |-> bytes_written])
       /\ IF WriteFailed(bytes_written)
          THEN /\ sw_ret' = -1
               /\ sw_pc' = "returned"
               /\ UNCHANGED <<total_bytes_written, fd_out>>
          ELSE /\ fd_out' = fd_out \o
                    WriteArg(str, total_bytes_written, bytes_written)
               /\ total_bytes_written' = total_bytes_written + bytes_written
               /\ UNCHANGED <<sw_ret, sw_pc>>
  /\ UNCHANGED <<str, len, bytes_to_write>>
  /\ UNCHANGED notSwrite

\* The loop ends: return 0.
SwReturn ==
  /\ sw_pc = "loop"
  /\ ~LoopGoesOn(total_bytes_written, bytes_to_write)
  /\ sw_ret' = 0
  /\ sw_pc' = "returned"
  /\ UNCHANGED <<str, len, total_bytes_written, bytes_to_write, fd_out,
                 write_calls>>
  /\ UNCHANGED notSwrite

SwNext == SwEnter \/ SwLoop \/ SwReturn

\* ------------------------------------------------------------------------
\* Parser::Transition
\* ------------------------------------------------------------------------

\* How many Transition objects exist at a time, and how many Action objects
\* are created over a run.
MaxTransitions == 2
MaxActions == 3

\* The State objects (static), and the null pointer.
States == {1, 2}
NULL == 0

Absent == [action |-> 0, next_state |-> -1]

Slots == 1..MaxTransitions

\* The Action objects that exist: a shared_ptr destroys its object when the
\* last pointer to it goes away.
Alive(h) == {a \in DOMAIN h : h[a].use_count > 0}

\* One Action is held by the parser's tables from the start.
InitTransition ==
  /\ tr = [t \in Slots |-> Absent]
  /\ heap = <<[type |-> "Print", use_count |-> 1]>>
  /\ lastOp = [op |-> "none", dst |-> 0, src |-> 0, s_action |-> 0,
               s_next_state |-> 0, before |-> tr, alive |-> Alive(heap)]

IdleTransition ==
  /\ tr = <<>> /\ heap = <<>>
  /\ lastOp = [op |-> "none", dst |-> 0, src |-> 0, s_action |-> 0,
               s_next_state |-> 0, before |-> <<>>, alive |-> {}]

\* std::make_shared<Ignore>(): a new Action object, with one pointer to it.
MakeSharedIgnore(h) == Append(h, [type |-> "Ignore", use_count |-> 1])

\* One more, or one less, shared pointer to the Action a.
Acquire(h, a) == [h EXCEPT ![a].use_count = @ + 1]
Release(h, a) == [h EXCEPT ![a].use_count = @ - 1]

\* A faulty default argument: a State instead of NULL.
DefaultNextStateWrong == NULL + 1

\* The default argument for s_next_state.
DefaultNextState == NULL

\* The record of one operation: which, on which Transition, from which
\* source, with which arguments, and the Transitions and Actions before it.
Op(op, dst, src, a, s) ==
  [op |-> op, dst |-> dst, src |-> src, s_action |-> a, s_next_state |-> s,
   before |-> tr, alive |-> Alive(heap)]

\* Transition(): both arguments defaulted.  The temporary made by
\* make_shared is copied into the member and then goes away.
ConstructDefault(t) ==
  /\ tr[t] = Absent /\ Len(heap) < MaxActions
  /\ LET h1 == MakeSharedIgnore(heap)
         a  == Len(h1)
     IN  /\ heap' = Release(Acquire(h1, a), a)
         /\ tr' = [tr EXCEPT ![t] = [action |-> a,
                                     next_state |-> DefaultNextState]]
  /\ lastOp' = Op("default", t, 0, 0, 0)
  /\ UNCHANGED notTransition

\* Transition( s_action, s_next_state ), and Transition( s_action ) when
\* given is FALSE.
ConstructAction(t, a, s, given) ==
  /\ tr[t] = Absent /\ a \in Alive(heap)
  /\ heap' = Acquire(heap, a)
  /\ tr' = [tr EXCEPT ![t] = [action |-> a,
                 next_state |-> IF given THEN s ELSE DefaultNextState]]
  /\ lastOp' = Op(IF given THEN "action_state" ELSE "action", t, 0, a, s)
  /\ UNCHANGED notTransition

\* Transition( s_next_state ): the one-argument form with a State *.
ConstructState(t, s) ==
  /\ tr[t] = Absent /\ Len(heap) < MaxActions
  /\ LET h1 == MakeSharedIgnore(heap)
         a  == Len(h1)
     IN  /\ heap' = Release(Acquire(h1, a), a)
         /\ tr' = [tr EXCEPT ![t] = [action |-> a, next_state |-> s]]
  /\ lastOp' = Op("state", t, 0, 0, s)
  /\ UNCHANGED notTransition

\* Transition( const Transition &x ).
CopyConstruct(t, x) ==
  /\ tr[t] = Absent /\ tr[x] # Absent
  /\ heap' = Acquire(heap, tr[x].action)
  /\ tr' = [tr EXCEPT ![t] = [action |-> tr[x].action,
                              next_state |-> tr[x].next_state]]
  /\ lastOp' = Op("copy", t, x, 0, 0)
  /\ UNCHANGED notTransition

\* operator=( const Transition &t ): the shared pointer takes the source's
\* Action and lets go of the one it held.
Assign(t, x) ==
  /\ tr[t] # Absent /\ tr[x] # Absent
  /\ heap' = Release(Acquire(heap, tr[x].action), tr[t].action)
  /\ tr' = [tr EXCEPT ![t] = [action |-> tr[x].action,
                              next_state |-> tr[x].next_state]]
  /\ lastOp' = Op("assign", t, x, 0, 0)
  /\ UNCHANGED notTransition

\* The (implicit) destructor.
Destroy(t) ==
  /\ tr[t] # Absent
  /\ heap' = Release(heap, tr[t].action)
  /\ tr' = [tr EXCEPT ![t] = Absent]
  /\ lastOp' = Op("destroy", t, 0, 0, 0)
  /\ UNCHANGED notTransition

TrNext ==
  \/ \E t \in Slots : ConstructDefault(t)
  \/ \E t \in Slots, a \in 1..MaxActions, s \in States \cup {NULL},
        given \in BOOLEAN : ConstructAction(t, a, s, given)
  \/ \E t \in Slots, s \in States : ConstructState(t, s)
  \/ \E t \in Slots, x \in Slots : CopyConstruct(t, x)
  \/ \E t \in Slots, x \in Slots : Assign(t, x)
  \/ \E t \in Slots : Destroy(t)

\* ------------------------------------------------------------------------
\* Specifications
\* ------------------------------------------------------------------------

vars == <<envVars, loopVars, histVars, winVars, swVars, trVars>>

\* The main loop.
Init == InitLoop /\ IdleSwrite /\ IdleTransition

Next == LoopNext

Spec == Init /\ [][Next]_vars

\* select() returns without an error and without either descriptor being at
\* end of file: bytes or a signal are pending, or the timeout has run out.
SelectWakes ==
  SelectReturns /\ pc' = "dispatch" /\ sel' = Ready(FALSE, FALSE)

\* The steps of the program itself.
LoopStep ==
  \/ Setup
  \/ SelectWakes
  \/ UserRead
  \/ UserAct
  \/ HostRead
  \/ HostWrite
  \/ Winch
  \/ TellChild
  \/ NoEvent
  \/ Tick
  \/ Leave

\* The most bytes and resizes together that the world produces in the runs
\* examined for progress.
MaxLiveEvents == 2

\* Few enough bytes and resizes have happened so far.
FewEvents == userArrived + hostArrived + termSize < MaxLiveEvents

UserTypesLive(b) == FewEvents /\ UserTypes(b)

HostSendsLive(b) == FewEvents /\ HostSends(b)

WindowResizedLive == FewEvents /\ WindowResized

\* The steps of the main loop and of a world that produces at most
\* MaxLiveEvents bytes and resizes.
NextLive ==
  \/ Setup
  \/ SelectReturns
  \/ UserRead
  \/ UserAct
  \/ HostRead
  \/ HostWrite
  \/ Winch
  \/ TellChild
  \/ NoEvent
  \/ Tick
  \/ Leave
  \/ \E b \in Byte : UserTypesLive(b)
  \/ \E b \in Byte : HostSendsLive(b)
  \/ WindowResizedLive
  \/ Elapse

\* The main loop when it keeps running and the clock advances: the program
\* takes its next step whenever it has one (select() returns when bytes or
\* a signal are pending or the timeout has run out; nothing obliges it to
\* fail, or the user or the host to close their end), and the clock moves on
\* while the program waits.
SpecLive ==
  Init /\ [][NextLive]_vars /\ WF_vars(LoopStep) /\ WF_vars(Elapse)

\* swrite alone.
InitSw == InitLoop /\ InitSwrite /\ IdleTransition

NextSw == SwNext

SpecSwrite == InitSw /\ [][NextSw]_vars

\* Parser::Transition alone.
InitTr == InitLoop /\ IdleSwrite /\ InitTransition

NextTr == TrNext

SpecTransition == InitTr /\ [][NextTr]_vars

\* ------------------------------------------------------------------------
\* Properties of emulate_terminal (checked under Spec)
\* ------------------------------------------------------------------------

Returned == pc = "done"

Opened == Len(toTerm) >= 1 /\ toTerm[1] = "open"

\* The microseconds between two readings of the clock, in model ticks.
Between(t1, t2) == (t2 - t1) * ClockStep

\* C1: whenever emulate_terminal has returned after writing display.open(),
\* the last thing it wrote to the terminal is display.close().  The code does
\* not do this: the returns on end of file, on a read error and on a failed
\* ioctl in the SIGWINCH branch skip the code after the loop.
C1_CloseBeforeReturn ==
  (Returned /\ Opened) => Last(toTerm) = "close"

\* C2: when the loop was left because the write to the host failed, the last
\* two things written to the terminal are a frame and display.close(), the
\* frame renders the emulator's framebuffer as the loop left it, and it is a
\* full repaint: the bytes new_frame gives are those it gives when told that
\* nothing was rendered before.  The code passes initialized = true, so the
\* frame is a difference from the last snapshot.
C2_FinalFullRepaint ==
  (Returned /\ cause = "host_write") =>
     /\ Len(toTerm) >= 2
     /\ toTerm[Len(toTerm) - 1] = "frame"
     /\ Last(toTerm) = "close"
     /\ Last(calls).by = "exit"
     /\ Last(calls).current = get_fb
     /\ Last(calls).out = NewFrame(FALSE, Last(calls).previous, get_fb)

\* C3 as stated: any two successive calls of new_frame, whoever made them,
\* are at least 1/50 second apart (the first call has no call before it).
\* The render after the loop is not held back, so this fails.
C3_RendersApart ==
  Len(calls) = 2 => Between(calls[1].at, calls[2].at) >= RenderIntervalUsec

\* C3 as amended: a render made by tick is at least 1/50 second after the
\* render before it; only the render made when the loop is left may follow
\* another one sooner.
C3_TickRendersApart ==
  /\ (Len(calls) = 2 /\ calls[2].by = "tick") =>
        /\ calls[1].by = "tick"
        /\ Between(calls[1].at, calls[2].at) >= RenderIntervalUsec
  /\ (Len(calls) = 2 /\ Between(calls[1].at, calls[2].at) < RenderIntervalUsec)
        => calls[2].by = "exit"

\* A second render by tick has happened, exactly 1/50 second after the first.
C3_Witness ==
  /\ Len(calls) = 2 /\ calls[2].by = "tick"
  /\ Between(calls[1].at, calls[2].at) = 2 * ClockStep
  /\ Between(calls[1].at, calls[2].at) - ClockStep < RenderIntervalUsec

\* C4: the latest call of new_frame, if made with initialized = true, was
\* given as previous the framebuffer that the call before it was given as
\* current; in particular there is a call before it.  The render after the
\* loop passes initialized = true even when tick never rendered.
C4_PreviousWasRendered ==
  (calls # <<>> /\ Last(calls).initialized) =>
     /\ Len(calls) = 2
     /\ Last(calls).previous = calls[1].current

\* The loop body has read this iteration's bytes and applied none, some or
\* all of them.
InBody == pc \in {"user_loop", "host_write", "tick"}

\* C5: a host byte is applied only when every user byte that was pending at
\* a wake-up at which host bytes were pending too has been applied: in the
\* iteration that applies host bytes, the number of user bytes applied so far
\* is at least the number that had arrived by the last wake-up at which both
\* descriptors had bytes.
C5_UserBeforeHost ==
  (branch = "host" /\ InBody /\ buf # <<>>) => UserApplied >= bothMark

\* Host bytes are applied in a later iteration than the user bytes that were
\* pending together with them.
C5_Witness ==
  /\ branch = "host" /\ pc = "tick" /\ buf # <<>>
  /\ bothMark > 0 /\ UserApplied = bothMark

\* C6: when tick is about to be called, the emulator's log ends with the
\* bytes of this iteration's read, in the order read; nothing was written to
\* the terminal and tick was not called since the wake-up; and when the loop
\* is back at select() tick has been called exactly once in the iteration.
C6_ReadAppliedBeforeTick ==
  /\ (pc = "tick" /\ branch \in {"user", "host"}) =>
        /\ Len(complete) >= Len(buf)
        /\ Drop(complete, Len(complete) - Len(buf)) = Entries(branch, buf)
  /\ (pc \in {"dispatch", "user_loop", "host_write", "tick"}) =>
        /\ ticks = 0
        /\ Len(toTerm) = termMark
  /\ (pc = "select") => ticks = (IF initialized THEN 1 ELSE 0)

\* A read of two different user bytes has been applied and tick is next.
C6_Witness ==
  /\ pc = "tick" /\ branch = "user"
  /\ Len(buf) = 2 /\ buf[1] # buf[2]
  /\ ticks = 0

\* The replies of the emulator to user bytes, one act call per byte.
RECURSIVE UserReply(_)
UserReply(s) ==
  IF s = <<>> THEN <<>> ELSE UserByteReply(s[1]) \o UserReply(Drop(s, 1))

\* The reply this iteration owes the host for the bytes it read.
Owed == IF branch = "user" THEN UserReply(buf) ELSE HostReply(buf)

\* The replies owed for a whole log of the emulator.
RECURSIVE LogReply(_)
LogReply(log) ==
  IF log = <<>> THEN <<>>
  ELSE (CASE log[1].src = "user" -> UserByteReply(log[1].val)
          [] log[1].src = "host" -> HostByteReply(log[1].val)
          [] OTHER -> <<>>) \o LogReply(Drop(log, 1))

\* The bytes handed to the host descriptor in this iteration.
Delivered == Drop(toHost, hostMark)

\* This iteration has called swrite on the host descriptor.
AfterHostWrite ==
  /\ branch \in {"user", "host"}
  /\ pc = "tick" \/ (pc \in {"final", "done"} /\ cause = "host_write")

\* C7 as stated: after the write of an iteration that read bytes, the bytes
\* handed to the host in that iteration are exactly the replies owed for the
\* bytes read.  A failing write leaves only a part of them written.
C7_WrittenIsWholeReply ==
  AfterHostWrite => Delivered = Owed

\* C7 as amended: swrite is given exactly the replies owed for the bytes read,
\* in order; when it returns 0 all of them have been handed to the host, when
\* it fails a proper prefix of them has been and the loop is left; and as
\* long as the loop runs the host has received exactly the replies owed for
\* everything applied so far, so nothing is reordered or carried over.
C7_ReplyWritten ==
  /\ AfterHostWrite =>
        /\ wreq = Owed
        /\ IsPrefix(Delivered, wreq)
        /\ Len(Delivered) = wres.n
        /\ (wres.ret = 0) => (Delivered = wreq /\ pc = "tick")
        /\ (wres.ret < 0) => (Len(Delivered) < Len(wreq) /\ pc # "tick")
        /\ Prefix(toHost, hostMark) \o wreq = LogReply(complete)
  /\ (pc \in {"select", "dispatch", "tick"}) => toHost = LogReply(complete)

\* Two different user bytes were read together and their replies written.
C7_Witness ==
  /\ pc = "tick" /\ branch = "user"
  /\ Len(buf) = 2 /\ buf[1] # buf[2]
  /\ wres.ret = 0 /\ Len(Delivered) = 3

\* tick is about to run for the first time, or the clock now reads at least
\* 1/50 second more than it read at tick's last render.
RenderDue ==
  (~initialized) \/ (Between(Last(calls).at, now) >= RenderIntervalUsec)

\* What one call of tick does, as the claim has it.
C11_TickStep ==
  (pc = "tick") =>
     IF RenderDue
     THEN /\ toTerm' = Append(toTerm, "frame")
          /\ Last(calls').by = "tick"
          /\ Last(calls').initialized = initialized
          /\ Last(calls').previous = state
          /\ Last(calls').current = get_fb
          /\ Last(calls').at = now
          /\ initialized => Last(calls').previous = Last(calls).current
          /\ state' = get_fb
          /\ initialized' = TRUE
          /\ last_time' = timeval(now)
          /\ timeout' = TimeoutForever
     ELSE /\ UNCHANGED <<state, initialized, last_time>>
          /\ UNCHANGED <<toTerm, calls>>
          /\ timeout' = TimeoutShort

\* C11: tick renders exactly when it runs for the first time or at least
\* 1/50 second after its last render.  A rendering tick calls
\* new_frame( initialized, state, new_frame ) and writes the frame, then sets
\* state to new_frame, initialized to true and last_time to the time it
\* read, and returns true (the caller's timeout becomes -1); the previous
\* framebuffer it passes is the one its last render was given as current.
\* A tick that does not render leaves state, initialized and last_time as
\* they were, writes nothing and returns false (the timeout becomes 20).
C11_TickRendersWhenDue == [][C11_TickStep]_vars

\* tick rendered a changed framebuffer exactly when 1/50 second had passed
\* since its first render, and the call of tick after that did not render.
C11_Witness ==
  /\ pc = "select" /\ timeout = TimeoutShort
  /\ Len(calls) = 2 /\ calls[2].by = "tick"
  /\ calls[2].previous # calls[2].current
  /\ Between(calls[1].at, calls[2].at) = 2 * ClockStep
  /\ state = calls[2].current
  /\ last_time = timeval(calls[2].at)

\* An iteration of the loop has ended and select() is being called again.
IterationEnded == pc = "select" /\ ticks = 1

\* A frame was written to the terminal since the last wake-up.
RenderedThisIteration == Len(toTerm) = termMark + 1 /\ Last(toTerm) = "frame"

\* C12: when an iteration of the loop has ended, the timeout given to the
\* next select() is -1 if tick wrote a frame in that iteration and 20 if it
\* wrote nothing; and whenever select() is called with timeout -1, before the
\* first iteration or after any, the snapshot `state` is the emulator's
\* framebuffer.
C12_TimeoutTellsPending ==
  /\ IterationEnded =>
        /\ timeout \in {TimeoutForever, TimeoutShort}
        /\ (timeout = TimeoutForever) <=> RenderedThisIteration
        /\ (timeout = TimeoutShort) <=> (Len(toTerm) = termMark)
  /\ (pc = "select" /\ timeout = TimeoutForever) => state = get_fb

\* An iteration that applied a byte ended without a render: the timeout is
\* 20 and the snapshot is behind the framebuffer.
C12_Witness ==
  /\ IterationEnded /\ timeout = TimeoutShort
  /\ ~RenderedThisIteration
  /\ state # get_fb

\* An iteration has ended in which tick wrote nothing.
Declined == IterationEnded /\ ~RenderedThisIteration

\* The clock of the model can still reach the time at which a timeout of 20
\* ms from the present call of select() runs out.
ClockRoom ==
  selectStart \in {t \in 0..MaxClock :
                     Between(t, MaxClock) >= TimeoutShort * 1000}

\* An iteration has ended in which tick rendered, and the snapshot is the
\* emulator's framebuffer.
Rendered == IterationEnded /\ RenderedThisIteration /\ state = get_fb

\* The loop has been left.
Left == pc \in {"final", "done"}

\* C13: when the loop keeps running and the clock advances, an iteration in
\* which tick did not render is followed by an iteration in which it does,
\* even if no input arrives, and at the end of that iteration the snapshot
\* `state` is the emulator's framebuffer.  The loop keeps running: it has not
\* been left.  The clock advances: the clock of the model, which stops at
\* MaxClock, can still reach the time at which the 20 ms timeout runs out.
C13_DeclinedLeadsToRender ==
  (Declined /\ ClockRoom) ~> (Rendered \/ Left \/ (Declined /\ ~ClockRoom))

\* tick left a change of the framebuffer unrendered, and the clock can still
\* run for 20 ms.
C13_Witness ==
  /\ Declined /\ ClockRoom
  /\ state # get_fb
  /\ userIn = <<>> /\ hostIn = <<>> /\ ~winch

\* The window sizes the emulator was resized to, in order.
RECURSIVE Resizes(_)
Resizes(log) ==
  IF log = <<>> THEN <<>>
  ELSE (IF log[1].src = "resize" THEN <<log[1].val>> ELSE <<>>)
         \o Resizes(Drop(log, 1))

\* What was applied to the emulator since select() was last called.
AppliedSinceSelect == Drop(complete, logMark)

\* C14: of what select() reported, the loop body handles the user input if
\* the user descriptor is readable, else the host input if the host
\* descriptor is readable, else the pending SIGWINCH, and nothing more in
\* that wake-up: all that is applied to the emulator between two calls of
\* select() comes from that one source, the host is written to only for a
\* user or host input, and a resize is applied only when neither descriptor
\* was reported readable, and once.  The child is told a new window size
\* only after the emulator was resized to it: the sizes the child was told
\* after the first are the sizes the emulator was resized to, in order, the
\* emulator being at most one resize ahead.
C14_OneSourceByPriority ==
  /\ sel.user => branch = "user"
  /\ (~sel.user /\ sel.host) => branch = "host"
  /\ (~sel.user /\ ~sel.host /\ sel.sig) => branch = "winch"
  /\ (~sel.user /\ ~sel.host /\ ~sel.sig) => branch = "none"
  /\ \A k \in DOMAIN AppliedSinceSelect :
        /\ (AppliedSinceSelect[k].src = "user") <=> (branch = "user")
        /\ (AppliedSinceSelect[k].src = "host") <=> (branch = "host")
        /\ (AppliedSinceSelect[k].src = "resize") <=> (branch = "winch")
  /\ (Len(Resizes(AppliedSinceSelect)) > 0) =>
        /\ ~sel.user /\ ~sel.host /\ sel.sig
        /\ Len(AppliedSinceSelect) = 1
  /\ (pc # "select" /\ cause # "select" /\ Len(toHost) > hostMark)
        => branch \in {"user", "host"}
  /\ (toChild # <<>>) =>
        /\ IsPrefix(Drop(toChild, 1), Resizes(complete))
        /\ Len(Resizes(complete)) <= Len(toChild)
  /\ (toChild = <<>>) => (complete = <<>>)

\* A SIGWINCH was handled: the emulator was resized, and the child has not
\* yet been told the new size.
C14_Witness ==
  /\ pc = "winch_tell" /\ branch = "winch"
  /\ sel = [user |-> FALSE, host |-> FALSE, sig |-> TRUE]
  /\ Len(Resizes(complete)) = 1 /\ Len(toChild) = 1
  /\ Len(complete) > 1

\* ------------------------------------------------------------------------
\* Properties of swrite (checked under SpecSwrite)
\* ------------------------------------------------------------------------

\* The number of bytes of s before its first NUL, counted byte by byte.
LeadingNonNul(s) ==
  Cardinality({k \in DOMAIN s : \A j \in 1..k : s[j] # 0})

\* The number of bytes the caller asks swrite to write.
Asked == IF len >= 0 THEN len ELSE LeadingNonNul(str)

\* The bytes the write calls before the k-th took.
RECURSIVE TakenBefore(_)
TakenBefore(k) ==
  IF k <= 1 THEN 0 ELSE TakenBefore(k - 1) + write_calls[k - 1].result

\* C8: when swrite has returned 0, the descriptor was handed exactly the
\* first N bytes of str, in order and once each, N being len, or strlen(str)
\* for a negative len; every write call started where the bytes taken by the
\* calls before it ended and asked for all the rest; and with N = 0 no write
\* call was made.
C8_SwriteWritesAll ==
  (sw_pc = "returned" /\ sw_ret = 0) =>
     /\ fd_out = Prefix(str, Asked)
     /\ total_bytes_written = Asked
     /\ \A k \in DOMAIN write_calls :
          /\ write_calls[k].result > 0
          /\ write_calls[k].offset = TakenBefore(k)
          /\ write_calls[k].count = Asked - TakenBefore(k)
     /\ (Asked = 0) => (write_calls = <<>>)

\* swrite returned 0 after two partial writes of a string it measured itself,
\* in a buffer that goes on after the NUL.
C8_Witness ==
  /\ sw_pc = "returned" /\ sw_ret = 0
  /\ len < 0 /\ Len(str) > LeadingNonNul(str)
  /\ Len(write_calls) = 2
  /\ fd_out = <<1, 2>>

\* The summary of swrite that the model of the main loop uses agrees with
\* its steps: what a finished call returned and wrote is one of the outcomes
\* SwriteOutcomes allows for the bytes asked.
SwriteSummaryAgrees ==
  (sw_pc = "returned") =>
     /\ [ret |-> sw_ret, n |-> Len(fd_out)] \in SwriteOutcomes(Prefix(str, Asked))
     /\ IsPrefix(fd_out, Prefix(str, Asked))

\* swrite has returned -1.
SwriteFailed == sw_pc = "returned" /\ sw_ret = -1

\* C15: a write call that returns 0 or less is the last write call swrite
\* makes, and swrite returns -1 right after it; swrite returns -1 only so;
\* and what the write calls before the failing one took stays written: the
\* descriptor holds those bytes of str, and only those.
C15_FailsAtFirstBadWrite ==
  /\ \A k \in DOMAIN write_calls :
        (write_calls[k].result <= 0) =>
           /\ k = Len(write_calls)
           /\ SwriteFailed
  /\ SwriteFailed =>
        /\ write_calls # <<>>
        /\ Last(write_calls).result <= 0
        /\ \A k \in 1..(Len(write_calls) - 1) : write_calls[k].result > 0
        /\ total_bytes_written = TakenBefore(Len(write_calls))
        /\ total_bytes_written < Asked
        /\ fd_out = Prefix(str, TakenBefore(Len(write_calls)))
  /\ (sw_pc = "returned") => sw_ret \in {0, -1}

\* swrite returned -1 at its second write call, which returned -1, after a
\* first call that took one byte: that byte stays written.
C15_Witness ==
  /\ SwriteFailed
  /\ Len(write_calls) = 2
  /\ write_calls[1].result = 1 /\ write_calls[2].result = -1
  /\ fd_out = <<str[1]>>

\* C16: with write calls that return at most what they were asked for, all
\* through the loop 0 <= total_bytes_written <= bytes_to_write, every write
\* call that succeeds leaves total_bytes_written greater than it found it,
\* swrite never makes more than bytes_to_write write calls, and as long as
\* it has not returned it has a next step: so it returns.
C16_SwriteTerminates ==
  /\ (sw_pc \in {"loop", "returned"}) =>
        /\ 0 <= total_bytes_written
        /\ total_bytes_written <= bytes_to_write
        /\ bytes_to_write = Asked
        /\ Len(write_calls) <= bytes_to_write
        /\ \A k \in DOMAIN write_calls :
              /\ write_calls[k].result <= write_calls[k].count
              /\ (write_calls[k].result > 0) =>
                    IF k < Len(write_calls)
                    THEN write_calls[k + 1].offset > write_calls[k].offset
                    ELSE total_bytes_written > write_calls[k].offset
  /\ (sw_pc \in {"entry", "loop"}) => ENABLED SwNext

\* swrite made as many write calls as there were bytes to write, one byte
\* at a time, and returned 0.
C16_Witness ==
  /\ sw_pc = "returned" /\ sw_ret = 0
  /\ bytes_to_write = MaxStrLen
  /\ Len(write_calls) = bytes_to_write
  /\ total_bytes_written = bytes_to_write

\* ------------------------------------------------------------------------
\* Properties of Parser::Transition (checked under SpecTransition)
\* ------------------------------------------------------------------------

\* The Transition the last operation made or changed.
Made == tr[lastOp.dst]

\* C9: a Transition constructed without an action carries a new Ignore
\* action, and one constructed without a next state carries NULL: Transition()
\* gives (Ignore, NULL), Transition( State * ) gives (Ignore, that state), and
\* Transition( action ) gives (that action, NULL).
C9_DefaultsAreIgnoreAndNull ==
  /\ (lastOp.op = "default") =>
        /\ heap[Made.action].type = "Ignore"
        /\ Made.action \notin lastOp.alive
        /\ Made.next_state = NULL
  /\ (lastOp.op = "state") =>
        /\ heap[Made.action].type = "Ignore"
        /\ Made.action \notin lastOp.alive
        /\ Made.next_state = lastOp.s_next_state
  /\ (lastOp.op = "action") =>
        /\ Made.action = lastOp.s_action
        /\ Made.next_state = NULL

\* Transition() has just been called.
C9_Witness ==
  /\ lastOp.op = "default"
  /\ Made.next_state = NULL
  /\ heap[Made.action] = [type |-> "Ignore", use_count |-> 1]

\* C10: after a copy construction or an assignment the target refers to the
\* Action and the State the source referred to, the source is as it was, and
\* the Action objects that exist are those that existed before.  An
\* assignment to a Transition that held the last pointer to its Action
\* destroys that Action.
C10_CopyKeepsEverything ==
  (lastOp.op \in {"copy", "assign"}) =>
     /\ Made.action = lastOp.before[lastOp.src].action
     /\ Made.next_state = lastOp.before[lastOp.src].next_state
     /\ tr[lastOp.src] = lastOp.before[lastOp.src]
     /\ Alive(heap) = lastOp.alive

=============================================================================
